---- MODULE Spec2Model ----
(***************************************************************************)
(* State-machine model of the URL uptime monitor                           *)
(* (netlify/functions/url-monitor/index.mjs): the expectation matcher,     *)
(* the single probe with HEAD->GET fallback, the retry loop with backoff,  *)
(* the bounded-concurrency worker pool and the handler that aggregates     *)
(* the results and dispatches the alert.                                   *)
(***************************************************************************)
EXTENDS Integers, Sequences, FiniteSets, TLC

(***************************************************************************)
(* Bounds of the model.                                                    *)
(***************************************************************************)
\* longest MONITORS list of the scheduler specification
MaxTargets == 2
\* largest concurrency limit handed to mapLimit
MaxLimit == 2
\* largest `retries` value of the retry specification
MaxRetries == 5
\* status codes the matcher specification enumerates
MinStatus == 100
MaxStatus == 599

(***************************************************************************)
(* Program constants.                                                      *)
(***************************************************************************)
DEFAULT_TIMEOUT_MS == 8000
DEFAULT_RETRIES == 2
BackoffBaseMs == 250
BackoffCapMs == 2000

(***************************************************************************)
(* JavaScript values, as far as the program looks at them.  Every value    *)
(* is a record tagged with its type; an object carries the four keys the   *)
(* matcher reads, a missing key reading as undefined.                      *)
(***************************************************************************)
Undefined == [t |-> "undefined"]
Null == [t |-> "null"]
Num(n) == [t |-> "number", n |-> n]
Str(s) == [t |-> "string", s |-> s]
Bool(b) == [t |-> "boolean", b |-> b]
Arr(e) == [t |-> "array", elems |-> e]
Obj(n, a, b, r) == [t |-> "object", not |-> n, anyOf |-> a, between |-> b, oneOfRanges |-> r]

\* !!v
Truthy(v) ==
  CASE v.t = "undefined" -> FALSE
    [] v.t = "null" -> FALSE
    [] v.t = "number" -> v.n # 0
    [] v.t = "string" -> v.s # ""
    [] v.t = "boolean" -> v.b
    [] OTHER -> TRUE

\* typeof v === "object" (null is excluded by the callers' earlier !v test)
TypeofObject(v) == v.t \in {"object", "array", "null"}

\* Array.isArray(v)
IsArray(v) == v.t = "array"

\* v[key] for the keys the matcher reads; an array has none of them
Prop(v, key) ==
  IF v.t = "object"
  THEN CASE key = "not" -> v.not
         [] key = "anyOf" -> v.anyOf
         [] key = "between" -> v.between
         [] key = "oneOfRanges" -> v.oneOfRanges
  ELSE Undefined

\* ToNumber(v) of a relational comparison: <<n>>, or << >> for NaN
ToNumber(v) ==
  CASE v.t = "number" -> <<v.n>>
    [] v.t = "null" -> <<0>>
    [] v.t = "boolean" -> <<IF v.b THEN 1 ELSE 0>>
    [] OTHER -> << >>

\* status >= v
JsGe(status, v) == ToNumber(v) # << >> /\ status.n >= ToNumber(v)[1]

\* status <= v
JsLe(status, v) == ToNumber(v) # << >> /\ status.n <= ToNumber(v)[1]

\* arr.includes(status)
Includes(arr, status) == \E k \in 1..Len(arr.elems) : arr.elems[k] = status

\* status >= min && status <= max, with [min, max] = pair
InRange(status, pair) == JsGe(status, pair.elems[1]) /\ JsLe(status, pair.elems[2])

\* matchesExpectation with the null test placed after the negation
RECURSIVE matchesNullLate(_, _)
matchesNullLate(status, expect) ==
  IF Truthy(expect) /\ TypeofObject(expect) /\ Truthy(Prop(expect, "not"))
  THEN ~matchesNullLate(status, Prop(expect, "not"))
  ELSE IF status.t \in {"null", "undefined"} THEN FALSE
  ELSE IF ~Truthy(expect) \/ expect = Str("2xx3xx")
  THEN status.n >= 200 /\ status.n < 400
  ELSE IF TypeofObject(expect)
  THEN IF Truthy(Prop(expect, "anyOf")) /\ IsArray(Prop(expect, "anyOf"))
       THEN Includes(Prop(expect, "anyOf"), status)
       ELSE IF /\ Truthy(Prop(expect, "between"))
               /\ IsArray(Prop(expect, "between"))
               /\ Len(Prop(expect, "between").elems) = 2
       THEN InRange(status, Prop(expect, "between"))
       ELSE IF Truthy(Prop(expect, "oneOfRanges")) /\ IsArray(Prop(expect, "oneOfRanges"))
       THEN \E k \in 1..Len(Prop(expect, "oneOfRanges").elems) :
              LET r == Prop(expect, "oneOfRanges").elems[k]
              IN  IsArray(r) /\ Len(r.elems) = 2 /\ InRange(status, r)
       ELSE FALSE
  ELSE FALSE

\* matchesExpectation with both range ends exclusive
RECURSIVE matchesExclusive(_, _)
matchesExclusive(status, expect) ==
  IF status.t \in {"null", "undefined"} THEN FALSE
  ELSE IF ~Truthy(expect) \/ expect = Str("2xx3xx")
  THEN status.n > 200 /\ status.n < 400
  ELSE IF TypeofObject(expect)
  THEN IF Truthy(Prop(expect, "not"))
       THEN ~matchesExclusive(status, Prop(expect, "not"))
       ELSE IF Truthy(Prop(expect, "anyOf")) /\ IsArray(Prop(expect, "anyOf"))
       THEN Includes(Prop(expect, "anyOf"), status)
       ELSE IF /\ Truthy(Prop(expect, "between"))
               /\ IsArray(Prop(expect, "between"))
               /\ Len(Prop(expect, "between").elems) = 2
       THEN InRange(status, Prop(expect, "between"))
            /\ status # Prop(expect, "between").elems[2]
       ELSE IF Truthy(Prop(expect, "oneOfRanges")) /\ IsArray(Prop(expect, "oneOfRanges"))
       THEN \E k \in 1..Len(Prop(expect, "oneOfRanges").elems) :
              LET r == Prop(expect, "oneOfRanges").elems[k]
              IN  IsArray(r) /\ Len(r.elems) = 2 /\ InRange(status, r)
       ELSE FALSE
  ELSE FALSE

\* matchesExpectation with the single range tested before the fixed set
RECURSIVE matchesRangeFirst(_, _)
matchesRangeFirst(status, expect) ==
  IF status.t \in {"null", "undefined"} THEN FALSE
  ELSE IF ~Truthy(expect) \/ expect = Str("2xx3xx")
  THEN status.n >= 200 /\ status.n < 400
  ELSE IF TypeofObject(expect)
  THEN IF Truthy(Prop(expect, "not"))
       THEN ~matchesRangeFirst(status, Prop(expect, "not"))
       ELSE IF /\ Truthy(Prop(expect, "between"))
               /\ IsArray(Prop(expect, "between"))
               /\ Len(Prop(expect, "between").elems) = 2
       THEN InRange(status, Prop(expect, "between"))
       ELSE IF Truthy(Prop(expect, "anyOf")) /\ IsArray(Prop(expect, "anyOf"))
       THEN Includes(Prop(expect, "anyOf"), status)
       ELSE IF Truthy(Prop(expect, "oneOfRanges")) /\ IsArray(Prop(expect, "oneOfRanges"))
       THEN \E k \in 1..Len(Prop(expect, "oneOfRanges").elems) :
              LET r == Prop(expect, "oneOfRanges").elems[k]
              IN  IsArray(r) /\ Len(r.elems) = 2 /\ InRange(status, r)
       ELSE FALSE
  ELSE FALSE

\* matchesExpectation(status, expect)
RECURSIVE matchesExpectation(_, _)
matchesExpectation(status, expect) ==
  IF status.t \in {"null", "undefined"} THEN FALSE
  ELSE IF ~Truthy(expect) \/ expect = Str("2xx3xx")
  THEN status.n >= 200 /\ status.n < 400
  ELSE IF TypeofObject(expect)
  THEN IF Truthy(Prop(expect, "not"))
       THEN ~matchesExpectation(status, Prop(expect, "not"))
       ELSE IF Truthy(Prop(expect, "anyOf")) /\ IsArray(Prop(expect, "anyOf"))
       THEN Includes(Prop(expect, "anyOf"), status)
       ELSE IF /\ Truthy(Prop(expect, "between"))
               /\ IsArray(Prop(expect, "between"))
               /\ Len(Prop(expect, "between").elems) = 2
       THEN InRange(status, Prop(expect, "between"))
       ELSE IF Truthy(Prop(expect, "oneOfRanges")) /\ IsArray(Prop(expect, "oneOfRanges"))
       THEN \E k \in 1..Len(Prop(expect, "oneOfRanges").elems) :
              LET r == Prop(expect, "oneOfRanges").elems[k]
              IN  IsArray(r) /\ Len(r.elems) = 2 /\ InRange(status, r)
       ELSE FALSE
  ELSE FALSE

(***************************************************************************)
(* The `expect` values the model configures monitors with: the documented  *)
(* forms, nodes carrying several keys, and malformed values.               *)
(***************************************************************************)
NoKey == Undefined
Codes(s) == Arr([k \in 1..Len(s) |-> Num(s[k])])
Pair(lo, hi) == Arr(<<Num(lo), Num(hi)>>)
AnyOf(s) == Obj(NoKey, Codes(s), NoKey, NoKey)
Between(lo, hi) == Obj(NoKey, NoKey, Pair(lo, hi), NoKey)
OneOfRanges(rs) == Obj(NoKey, NoKey, NoKey, Arr(rs))
Not(inner) == Obj(inner, NoKey, NoKey, NoKey)

Rules ==
  << Undefined,
     Str("2xx3xx"),
     AnyOf(<<200, 204, 301>>),
     Between(200, 399),
     OneOfRanges(<<Pair(200, 299), Pair(301, 302)>>),
     Not(AnyOf(<<503>>)),
     Not(Not(AnyOf(<<200>>))),
     Not(Str("2xx3xx")),
     AnyOf(<< >>),
     Between(404, 404),
     Obj(NoKey, Codes(<<404>>), Pair(200, 299), NoKey),
     Obj(NoKey, NoKey, Pair(500, 599), Arr(<<Pair(200, 299)>>)),
     Obj(AnyOf(<<500>>), Codes(<<500>>), NoKey, NoKey),
     Obj(AnyOf(<<200>>), Codes(<<200>>), Pair(200, 299), Arr(<<Pair(200, 299)>>)),
     Obj(NoKey, Codes(<<500>>), NoKey, Arr(<<Pair(200, 299)>>)),
     Obj(Null, Codes(<<200>>), NoKey, NoKey),
     Obj(NoKey, Num(200), Pair(200, 299), NoKey),
     Obj(NoKey, NoKey, NoKey, NoKey),
     Str("2xx"),
     Num(5),
     Bool(TRUE),
     Arr(<< >>),
     Obj(NoKey, Num(200), NoKey, NoKey),
     Obj(NoKey, NoKey, Arr(<<Num(200)>>), NoKey),
     OneOfRanges(<<Arr(<<Num(200)>>), Num(404)>>),
     OneOfRanges(<<Arr(<<Num(200)>>), Pair(404, 410)>>),
     Null,
     Str(""),
     Num(0),
     Bool(FALSE) >>

(***************************************************************************)
(* State.                                                                  *)
(***************************************************************************)
VARIABLES
  MONITORS,   \* the configured monitors, in order
  limit,      \* the concurrency limit handed to mapLimit (CONCURRENCY)
  net,        \* what a request can end with: [statuses, errors, latencies]
  hpc,        \* position of the handler
  i,          \* mapLimit's shared cursor
  ret,        \* mapLimit's result array: index -> summary, holes left out
  workers,    \* mapLimit's workers: position and locals of each
  calls,      \* per monitor: checkWithRetries invocations started and
              \* returned, writes of its slot of ret, and by which worker
  sleeps,     \* per monitor: the backoff delays slept so far, in order
  sent,       \* number of resend.emails.send calls made
  response,   \* the handler's Response, Undefined until it returns
  token,      \* process.env.MONITOR_TOKEN, "" when it is not set
  auth,       \* the request's authorization header, "" when it has none
  alert,      \* what became of the alert dispatch of this invocation
  mStatus,    \* matcher specification: the status code evaluated
  mExpect,    \* matcher specification: the rule evaluated
  mOut,       \* matcher specification: result for mExpect
  mNotOut,    \* matcher specification: result for { not: mExpect }
  mpc         \* matcher specification: position

vars == <<MONITORS, limit, net, hpc, i, ret, workers, calls, sleeps, sent,
          response, token, auth, alert, mStatus, mExpect, mOut, mNotOut, mpc>>

handlerVars == <<MONITORS, limit, net, hpc, i, ret, workers, calls, sleeps,
                 sent, response, token, auth, alert>>

matcherVars == <<mStatus, mExpect, mOut, mNotOut, mpc>>

(***************************************************************************)
(* Helpers of the retry loop and the probe.                                *)
(***************************************************************************)
Min(a, b) == IF a < b THEN a ELSE b
Max(a, b) == IF a > b THEN a ELSE b

RECURSIVE Pow2(_)
Pow2(n) == IF n <= 0 THEN 1 ELSE 2 * Pow2(n - 1)

\* backoffMs without the cap
backoffUncapped(attemptIndex) == BackoffBaseMs * Pow2(attemptIndex - 1)

\* backoffMs(attemptIndex)
backoffMs(attemptIndex) == Min(BackoffCapMs, BackoffBaseMs * Pow2(attemptIndex - 1))

\* m.timeoutMs ?? DEFAULT_TIMEOUT_MS (an absent field is << >>)
timeoutOf(m) == IF m.timeoutMs = << >> THEN DEFAULT_TIMEOUT_MS ELSE m.timeoutMs[1]

\* m.retries ?? DEFAULT_RETRIES (an absent field is << >>)
retriesOf(m) == IF m.retries = << >> THEN DEFAULT_RETRIES ELSE m.retries[1]

\* totalAttempts taking `retries` for the number of attempts
totalAttemptsNoFirst(retries) == Max(1, retries)

\* const totalAttempts = Math.max(1, retries + 1)
totalAttempts(retries) == Max(1, retries + 1)

\* monitor.method || "HEAD"
methodOf(m) == IF m.method = "undefined" THEN "HEAD" ELSE m.method

\* the fallback test applied to every response, whatever the method
fallbackAlways(status, method, reqs) == status \in {405, 501}

\* (res.status === 405 || res.status === 501) && method === "HEAD",
\* tested once, on the first response
needsFallback(status, method, reqs) ==
  status \in {405, 501} /\ method = "HEAD" /\ Len(reqs) = 1

\* the attempt checkOnce returns for a response
attemptOfResponse(m, status) ==
  [ok |-> matchesExpectation(Num(status), m.expect),
   status |-> Num(status), error |-> Null]

\* a catch clause that reports the error's name as it is
attemptOfErrorRaw(err) == [ok |-> FALSE, status |-> Null, error |-> Str(err)]

\* the attempt checkOnce returns for a rejected fetch
attemptOfError(err) ==
  [ok |-> FALSE, status |-> Null,
   error |-> Str(IF err = "AbortError" THEN "timeout" ELSE err)]

\* a summary that reads the first attempt where the last is meant
summarizeFirst(m, attempts) ==
  [url |-> m.url,
   ok |-> attempts[1].ok,
   expect |-> IF m.expect.t \in {"undefined", "null"} THEN Str("2xx3xx") ELSE m.expect,
   method |-> methodOf(m),
   attempts |-> Len(attempts),
   lastStatus |-> attempts[1].status,
   lastError |-> attempts[1].error,
   attemptDetails |-> attempts]

\* summarizeAttempts(monitor, attempts)
summarizeAttempts(m, attempts) ==
  [url |-> m.url,
   ok |-> \E k \in 1..Len(attempts) : attempts[k].ok,
   expect |-> IF m.expect.t \in {"undefined", "null"} THEN Str("2xx3xx") ELSE m.expect,
   method |-> methodOf(m),
   attempts |-> Len(attempts),
   lastStatus |-> attempts[Len(attempts)].status,
   lastError |-> attempts[Len(attempts)].error,
   attemptDetails |-> attempts]

(***************************************************************************)
(* Helpers of mapLimit and the handler.                                    *)
(***************************************************************************)
\* ret.length: one past the largest index written
ArrayLength(a) ==
  IF DOMAIN a = {} THEN 0
  ELSE 1 + CHOOSE k \in DOMAIN a : \A j \in DOMAIN a : j <= k

\* the workers launched when the limit is ignored
workerCountUnbounded(lim, n) == n

\* Math.min(limit, items.length)
workerCount(lim, n) == Min(lim, n)

\* ret.push(result)
storePush(a, idx, res) == (ArrayLength(a) :> res) @@ a

\* ret[idx] = result
storeAt(a, idx, res) == (idx :> res) @@ a

RECURSIVE filterFrom(_, _, _)
filterFrom(a, k, keepOk) ==
  IF k >= ArrayLength(a) THEN << >>
  ELSE IF k \in DOMAIN a /\ a[k].ok = keepOk
       THEN <<a[k]>> \o filterFrom(a, k + 1, keepOk)
       ELSE filterFrom(a, k + 1, keepOk)

\* results.filter((r) => r.ok)
filterUp(results) == filterFrom(results, 0, TRUE)

\* results.filter((r) => !r.ok)
filterDown(results) == filterFrom(results, 0, FALSE)

\* totals: { checked, down, up }
totalsOf(results, down) ==
  [checked |-> ArrayLength(results),
   down |-> Len(down),
   up |-> ArrayLength(results) - Len(down)]

(***************************************************************************)
(* Initial states.                                                         *)
(***************************************************************************)
\* monitors of the scheduler specification: several monitors, few retries
SchedTemplates ==
  {[method |-> "HEAD", retries |-> <<1>>, timeoutMs |-> << >>,
    expect |-> Str("2xx3xx")],
   [method |-> "GET", retries |-> <<0>>, timeoutMs |-> << >>,
    expect |-> Str("2xx3xx")],
   [method |-> "undefined", retries |-> <<0>>, timeoutMs |-> << >>,
    expect |-> AnyOf(<<500>>)]}

\* rules of the retry specification
RetryRules == {Undefined, Not(AnyOf(<<500>>)), Obj(NoKey, NoKey, NoKey, NoKey)}

\* monitors of the retry specification: one monitor, every retry count
RetryTemplates ==
  [method : {"HEAD", "GET", "undefined"},
   retries : {<< >>} \cup {<<n>> : n \in (0 - 1)..MaxRetries},
   timeoutMs : {<< >>},
   expect : RetryRules]

withUrl(tpl, k) ==
  [url |-> k, method |-> tpl.method, retries |-> tpl.retries,
   timeoutMs |-> tpl.timeoutMs, expect |-> tpl.expect]

MatcherOff ==
  /\ mStatus = Null
  /\ mExpect = Undefined
  /\ mOut = FALSE
  /\ mNotOut = FALSE
  /\ mpc = "off"

HandlerInit(templates, maxLen, limits, answers, requests) ==
  /\ \E n \in 0..maxLen :
       \E f \in [1..n -> templates] :
         MONITORS = [k \in 1..n |-> withUrl(f[k], k)]
  /\ limit \in limits
  /\ net = answers
  /\ hpc = "start"
  /\ i = 0
  /\ ret = << >>
  /\ workers = << >>
  /\ calls = [k \in 1..Len(MONITORS) |->
                [started |-> 0, returned |-> 0, stored |-> 0,
                 claimedBy |-> 0, storedBy |-> 0]]
  /\ sleeps = [k \in 1..Len(MONITORS) |-> << >>]
  /\ sent = 0
  /\ response = Undefined
  /\ \E r \in requests : token = r[1] /\ auth = r[2]
  /\ alert = "none"

\* one request that passes the auth guard and one that does not
TwoRequests == {<<"s3cret", "Bearer s3cret">>, <<"s3cret", "Bearer other">>}

Init ==
  /\ HandlerInit(SchedTemplates, MaxTargets, 1..MaxLimit,
                 [statuses |-> {200, 405, 500}, errors |-> {"AbortError"},
                  latencies |-> {0}],
                 TwoRequests)
  /\ MatcherOff

InitRetry ==
  /\ HandlerInit(RetryTemplates, 1, {1},
                 [statuses |-> {200, 405, 500}, errors |-> {"AbortError"},
                  latencies |-> {0}],
                 TwoRequests)
  /\ Len(MONITORS) = 1
  /\ MatcherOff

\* monitors of the probe specification: every method and rule, few retries
ProbeTemplates ==
  [method : {"HEAD", "GET", "undefined"},
   retries : {<<0>>, <<1>>},
   timeoutMs : {<< >>, <<6000>>},
   expect : {Rules[k] : k \in 1..Len(Rules)}]

InitProbe ==
  /\ HandlerInit(ProbeTemplates, 1, {1},
                 [statuses |-> {200, 301, 404, 405, 500, 501},
                  errors |-> {"AbortError", "fetch failed"},
                  latencies |-> {0, 5000}],
                 TwoRequests)
  /\ Len(MONITORS) = 1
  /\ MatcherOff

(***************************************************************************)
(* The handler up to mapLimit's launch.                                    *)
(***************************************************************************)
Tokens == {"", "s3cret"}
AuthHeaders == {"", "Bearer s3cret", "Bearer other", "s3cret"}

\* `Bearer ${token}`
bearer(tok) == "Bearer " \o tok

\* an auth guard that only looks for a missing header
rejectedIfMissing(tok, header) == tok # "" /\ header = ""

\* if (token) { if (auth !== `Bearer ${token}`) return 401 }
rejected(tok, header) == tok # "" /\ header # bearer(tok)

\* every configuration of the secret against every header
InitAuth ==
  /\ HandlerInit(SchedTemplates, 1, {1},
                 [statuses |-> {200, 405, 500}, errors |-> {"AbortError"},
                  latencies |-> {0}],
                 Tokens \X AuthHeaders)
  /\ MatcherOff

\* monitors of the pool specification: one plain HEAD monitor with a retry
PoolTemplates ==
  {[method |-> "HEAD", retries |-> <<1>>, timeoutMs |-> << >>,
    expect |-> Undefined]}

\* more monitors than workers, so that the workers compete for the indices
InitPool ==
  /\ HandlerInit(PoolTemplates, MaxTargets + 1, {MaxLimit},
                 [statuses |-> {200, 405}, errors |-> {"AbortError"},
                  latencies |-> {0}],
                 TwoRequests)
  /\ Len(MONITORS) = MaxTargets + 1
  /\ MatcherOff

\* fetch(monitor.url, { method, ... }) issued `at` ms after checkOnce armed
\* its timer, and not yet answered (`ended` is << >> until it is)
request(m, method, at) ==
  [url |-> m.url, method |-> method, at |-> at, ended |-> << >>,
   answer |-> Undefined, failure |-> ""]

\* a timer armed anew for each request
deadlineRearmed(reqs, timeoutMs) == reqs[Len(reqs)].at + timeoutMs

\* const timer = setTimeout(() => controller.abort(), timeoutMs): armed once,
\* before the first request, and its signal is passed to every fetch
deadline(reqs, timeoutMs) == reqs[1].at + timeoutMs

\* the moment a request in flight is answered after `latency` ms
answerTime(reqs, latency) == reqs[Len(reqs)].at + latency

\* the request in flight, the last one issued, ends with `answer`
answered(reqs, answer, failure, t) ==
  [reqs EXCEPT ![Len(reqs)].answer = answer,
               ![Len(reqs)].failure = failure,
               ![Len(reqs)].ended = <<t>>]

\* checkWithRetries entered for items[idx]: locals set, first fetch issued
startCheck(idx) ==
  [pc |-> "fetch", idx |-> idx, i |-> 1, attempts |-> << >>,
   reqs |-> <<request(MONITORS[idx + 1], methodOf(MONITORS[idx + 1]), 0)>>,
   result |-> Undefined]

idleWorker ==
  [pc |-> "done", idx |-> 0, i |-> 0, attempts |-> << >>, reqs |-> << >>,
   result |-> Undefined]

\* the auth guard rejects the request
Unauthorized ==
  /\ hpc = "start"
  /\ rejected(token, auth)
  /\ hpc' = "done"
  /\ response' = [status |-> 401, body |-> [error |-> "Unauthorized"]]
  /\ UNCHANGED <<MONITORS, limit, net, i, ret, workers, calls, sleeps, sent, token, auth, alert>>
  /\ UNCHANGED matcherVars

\* a loop test that stops one item early
hasNextButLast(cursor, n) == cursor + 1 < n

\* while (i < items.length)
hasNext(cursor, n) == cursor < n

\* a claim that leaves the cursor where it is
advanceStuck(cursor) == cursor

\* idx = i++
advance(cursor) == cursor + 1

\* the cursor after `claimed` claims
RECURSIVE cursorAfter(_)
cursorAfter(claimed) ==
  IF claimed = 0 THEN 0 ELSE advance(cursorAfter(claimed - 1))

\* the auth guard passes; mapLimit creates its workers, each of which runs
\* up to its first await: it claims an index and issues the first fetch
Launch ==
  /\ hpc = "start"
  /\ ~rejected(token, auth)
  /\ LET len == Len(MONITORS)
         n == workerCount(limit, len)
         claims(w) == hasNext(cursorAfter(w - 1), len)
         claimers(k) == {w \in 1..n : claims(w) /\ cursorAfter(w - 1) = k - 1}
     IN  /\ workers' = [w \in 1..n |-> IF claims(w)
                                        THEN startCheck(cursorAfter(w - 1))
                                        ELSE idleWorker]
         /\ i' = cursorAfter(Cardinality({w \in 1..n : claims(w)}))
         /\ calls' = [k \in 1..len |->
                        IF claimers(k) = {} THEN calls[k]
                        ELSE [calls[k] EXCEPT
                                !.started = Cardinality(claimers(k)),
                                !.claimedBy = CHOOSE w \in claimers(k) :
                                                \A v \in claimers(k) : v <= w]]
  /\ hpc' = "mapLimit"
  /\ UNCHANGED <<MONITORS, limit, net, ret, sleeps, sent, response, token, auth, alert>>
  /\ UNCHANGED matcherVars

(***************************************************************************)
(* checkOnce and checkWithRetries, run by worker w.                        *)
(***************************************************************************)
monitorOf(w) == MONITORS[workers[w].idx + 1]

\* a loop that goes on to the next attempt after a success
neverStopsEarly(attempt) == FALSE

\* if (attempt.ok) return summarizeAttempts(...)
stopsEarly(attempt) == attempt.ok

\* a catch clause that handles the abort only
catchesAbortOnly(err) == err = "AbortError"

\* catch (err) { ... }: every rejection of fetch lands in the catch clause
catches(err) == TRUE

\* the code after checkOnce returned `attempt`, its requests being `reqs`:
\* push, early return on success, backoff sleep if attempts remain, else
\* summary
afterAttempt(w, attempt, reqs) ==
  LET wk == workers[w]
      m == monitorOf(w)
      atts == Append(wk.attempts, attempt)
      k == wk.idx + 1
  IN  IF ~stopsEarly(attempt) /\ wk.i < totalAttempts(retriesOf(m))
      THEN /\ workers' = [workers EXCEPT ![w].attempts = atts,
                                         ![w].pc = "sleep",
                                         ![w].reqs = reqs]
           /\ sleeps' = [sleeps EXCEPT ![k] = Append(@, backoffMs(wk.i))]
           /\ UNCHANGED calls
      ELSE /\ workers' = [workers EXCEPT ![w].attempts = atts,
                                         ![w].pc = "returned",
                                         ![w].reqs = reqs,
                                         ![w].result = summarizeAttempts(m, atts)]
           /\ calls' = [calls EXCEPT ![k].returned = @ + 1]
           /\ UNCHANGED sleeps

\* a HEAD request is answered 405 or 501 before the timer fires: the GET
\* fallback is issued
FetchFallback(w) ==
  /\ hpc = "mapLimit"
  /\ workers[w].pc = "fetch"
  /\ \E status \in net.statuses, latency \in net.latencies :
       LET reqs == workers[w].reqs
           t == answerTime(reqs, latency)
       IN  /\ t < deadline(reqs, timeoutOf(monitorOf(w)))
           /\ needsFallback(status, methodOf(monitorOf(w)), reqs)
           /\ workers' = [workers EXCEPT ![w].reqs =
                            Append(answered(reqs, Num(status), "", t),
                                   request(monitorOf(w), "GET", t))]
  /\ UNCHANGED <<MONITORS, limit, net, hpc, i, ret, calls, sleeps, sent,
                 response, token, auth, alert>>
  /\ UNCHANGED matcherVars

\* the request in flight is answered before the timer fires and the attempt
\* is built from the response
FetchResolved(w) ==
  /\ hpc = "mapLimit"
  /\ workers[w].pc = "fetch"
  /\ \E status \in net.statuses, latency \in net.latencies :
       LET reqs == workers[w].reqs
           t == answerTime(reqs, latency)
       IN  /\ t < deadline(reqs, timeoutOf(monitorOf(w)))
           /\ ~needsFallback(status, methodOf(monitorOf(w)), reqs)
           /\ afterAttempt(w, attemptOfResponse(monitorOf(w), status),
                           answered(reqs, Num(status), "", t))
  /\ UNCHANGED <<MONITORS, limit, net, hpc, i, ret, sent, response, token,
                 auth, alert>>
  /\ UNCHANGED matcherVars

\* the request in flight fails: aborted when the timer fires, or a
\* transport error before that
FetchRejected(w) ==
  /\ hpc = "mapLimit"
  /\ workers[w].pc = "fetch"
  /\ \E err \in net.errors, latency \in net.latencies :
       LET reqs == workers[w].reqs
           fires == deadline(reqs, timeoutOf(monitorOf(w)))
           t == IF err = "AbortError" THEN fires ELSE answerTime(reqs, latency)
       IN  /\ t <= fires
           /\ IF catches(err)
              THEN /\ afterAttempt(w, attemptOfError(err),
                                   answered(reqs, Null, err, t))
                   /\ UNCHANGED hpc
              ELSE /\ workers' = [workers EXCEPT
                                    ![w].pc = "threw",
                                    ![w].reqs = answered(reqs, Null, err, t)]
                   /\ hpc' = "rejected"
                   /\ UNCHANGED <<calls, sleeps>>
  /\ UNCHANGED <<MONITORS, limit, net, i, ret, sent, response, token, auth,
                 alert>>
  /\ UNCHANGED matcherVars

\* the backoff sleep ends: i++ and the next checkOnce arms its timer and
\* issues its fetch
SleepDone(w) ==
  /\ hpc = "mapLimit"
  /\ workers[w].pc = "sleep"
  /\ workers' = [workers EXCEPT ![w].pc = "fetch",
                                ![w].i = @ + 1,
                                ![w].reqs = <<request(monitorOf(w),
                                                      methodOf(monitorOf(w)), 0)>>]
  /\ UNCHANGED <<MONITORS, limit, net, hpc, i, ret, calls, sleeps, sent,
                 response, token, auth, alert>>
  /\ UNCHANGED matcherVars

(***************************************************************************)
(* mapLimit's worker loop.                                                 *)
(***************************************************************************)
\* ret[idx] = await fn(items[idx]) completes; the loop test follows: the
\* worker claims the next index and starts its check, or ends
WorkerStore(w) ==
  /\ hpc = "mapLimit"
  /\ workers[w].pc = "returned"
  /\ ret' = storeAt(ret, workers[w].idx, workers[w].result)
  /\ LET written == [calls EXCEPT ![workers[w].idx + 1].stored = @ + 1,
                                  ![workers[w].idx + 1].storedBy = w]
     IN  IF hasNext(i, Len(MONITORS))
         THEN /\ workers' = [workers EXCEPT ![w] = startCheck(i)]
              /\ i' = advance(i)
              /\ calls' = [written EXCEPT ![i + 1].started = @ + 1,
                                          ![i + 1].claimedBy = w]
         ELSE /\ workers' = [workers EXCEPT ![w] = idleWorker]
              /\ calls' = written
              /\ UNCHANGED i
  /\ UNCHANGED <<MONITORS, limit, net, hpc, sleeps, sent, response, token, auth, alert>>
  /\ UNCHANGED matcherVars

(***************************************************************************)
(* The handler after mapLimit: aggregation, alert, response.               *)
(***************************************************************************)
\* await Promise.all(workers) has resolved
allWorkersDone == \A w \in DOMAIN workers : workers[w].pc = "done"

\* the body shared by the three responses that report results
reportFields(results, down) ==
  [totals |-> totalsOf(results, down), down |-> down, results |-> results]

\* return json({ ok: down.length === 0, emailSent, ... })
normalResponse(results, down, emailSent) ==
  [status |-> 200,
   body |-> [ok |-> Len(down) = 0, emailSent |-> emailSent]
            @@ reportFields(results, down)]

\* a handler that swallows the failure and reports the email as sent
errorAsNormal(results, down, status, error) ==
  normalResponse(results, down, TRUE)

\* return json({ ok: false, error, ... }, status)
errorResponse(results, down, status, error) ==
  [status |-> status,
   body |-> [ok |-> FALSE, error |-> error] @@ reportFields(results, down)]

\* an alert whatever the results are
shouldAlertAlways(down) == TRUE

\* if (down.length > 0)
shouldAlert(down) == Len(down) > 0

\* nothing is down: no email, the normal report
RespondAllUp ==
  /\ hpc = "mapLimit"
  /\ allWorkersDone
  /\ ~shouldAlert(filterDown(ret))
  /\ response' = normalResponse(ret, filterDown(ret), FALSE)
  /\ hpc' = "done"
  /\ UNCHANGED <<MONITORS, limit, net, i, ret, workers, calls, sleeps, sent, token, auth, alert>>
  /\ UNCHANGED matcherVars

\* something is down and RESEND_API_KEY / ALERT_EMAIL_TO / ALERT_EMAIL_FROM
\* is missing
RespondEnvMissing ==
  /\ hpc = "mapLimit"
  /\ allWorkersDone
  /\ shouldAlert(filterDown(ret))
  /\ response' = errorResponse(ret, filterDown(ret), 500, "env vars are missing")
  /\ alert' = "env-missing"
  /\ hpc' = "done"
  /\ UNCHANGED <<MONITORS, limit, net, i, ret, workers, calls, sleeps, sent, token, auth>>
  /\ UNCHANGED matcherVars

\* something is down and the mail settings are there: resend.emails.send
SendAlert ==
  /\ hpc = "mapLimit"
  /\ allWorkersDone
  /\ shouldAlert(filterDown(ret))
  /\ sent' = sent + 1
  /\ alert' = "sending"
  /\ hpc' = "send"
  /\ UNCHANGED <<MONITORS, limit, net, i, ret, workers, calls, sleeps, response,
                 token, auth>>
  /\ UNCHANGED matcherVars

\* the send resolves: emailSent = true, the normal report
SendResolved ==
  /\ hpc = "send"
  /\ response' = normalResponse(ret, filterDown(ret), TRUE)
  /\ alert' = "sent"
  /\ hpc' = "done"
  /\ UNCHANGED <<MONITORS, limit, net, i, ret, workers, calls, sleeps, sent, token, auth>>
  /\ UNCHANGED matcherVars

\* the send throws
SendRejected ==
  /\ hpc = "send"
  /\ response' = errorResponse(ret, filterDown(ret), 502,
                               "Failed to send alert email via Resend.")
  /\ alert' = "failed"
  /\ hpc' = "done"
  /\ UNCHANGED <<MONITORS, limit, net, i, ret, workers, calls, sleeps, sent, token, auth>>
  /\ UNCHANGED matcherVars

FetchFallbackStep == \E w \in DOMAIN workers : FetchFallback(w)
FetchResolvedStep == \E w \in DOMAIN workers : FetchResolved(w)
FetchRejectedStep == \E w \in DOMAIN workers : FetchRejected(w)
SleepDoneStep == \E w \in DOMAIN workers : SleepDone(w)
WorkerStoreStep == \E w \in DOMAIN workers : WorkerStore(w)

Next ==
  \/ Unauthorized
  \/ Launch
  \/ FetchFallbackStep
  \/ FetchResolvedStep
  \/ FetchRejectedStep
  \/ SleepDoneStep
  \/ WorkerStoreStep
  \/ RespondAllUp
  \/ RespondEnvMissing
  \/ SendAlert
  \/ SendResolved
  \/ SendRejected

\* the handler over several monitors and workers
Spec == Init /\ [][Next]_vars

\* the handler over one monitor with every retry count
SpecRetry == InitRetry /\ [][Next]_vars

\* the handler over one monitor with every rule and every answer
SpecProbe == InitProbe /\ [][Next]_vars

\* the handler over every secret and authorization header
SpecAuth == InitAuth /\ [][Next]_vars

\* the handler over more monitors than workers
SpecPool == InitPool /\ [][Next]_vars

\* worker w's request in flight is answered or cancelled by the timer
AnswerOf(w) ==
  /\ w \in DOMAIN workers
  /\ FetchFallback(w) \/ FetchResolved(w) \/ FetchRejected(w)

\* worker w's backoff sleep ends
SleepEndOf(w) == w \in DOMAIN workers /\ SleepDone(w)

\* worker w's continuation after `await fn(items[idx])` is run
ResumeOf(w) == w \in DOMAIN workers /\ WorkerStore(w)

\* every request is answered or cancelled, every sleep ends, and the event
\* loop runs every continuation that is ready
Fairness ==
  \A w \in 1..MaxLimit :
    /\ WF_vars(AnswerOf(w))
    /\ WF_vars(SleepEndOf(w))
    /\ WF_vars(ResumeOf(w))

\* monitors of the fair specification: a HEAD monitor with one retry and a
\* GET monitor whose negative retry count is clamped to one attempt
FairTemplates ==
  {[method |-> "HEAD", retries |-> <<1>>, timeoutMs |-> << >>,
    expect |-> Undefined],
   [method |-> "GET", retries |-> <<0 - 1>>, timeoutMs |-> << >>,
    expect |-> Undefined]}

InitFair ==
  /\ HandlerInit(FairTemplates, MaxTargets, 1..MaxLimit,
                 [statuses |-> {200, 405}, errors |-> {"AbortError"},
                  latencies |-> {0}],
                 TwoRequests)
  /\ MatcherOff

\* the handler over several monitors and workers, under fair scheduling
SpecFair == InitFair /\ [][Next]_vars /\ Fairness

(***************************************************************************)
(* The matcher alone: every status against every rule and its negation.    *)
(***************************************************************************)
StatusInputs == {Null, Undefined} \cup {Num(n) : n \in MinStatus..MaxStatus}

InitMatch ==
  /\ MONITORS = << >>
  /\ limit = 1
  /\ net = [statuses |-> {}, errors |-> {}, latencies |-> {}]
  /\ hpc = "off"
  /\ i = 0
  /\ ret = << >>
  /\ workers = << >>
  /\ calls = << >>
  /\ sleeps = << >>
  /\ sent = 0
  /\ response = Undefined
  /\ token = ""
  /\ auth = ""
  /\ alert = "off"
  /\ mStatus \in StatusInputs
  /\ \E k \in 1..Len(Rules) : mExpect = Rules[k]
  /\ mOut = FALSE
  /\ mNotOut = FALSE
  /\ mpc = "input"

\* matchesExpectation(status, expect) and matchesExpectation(status, { not: expect })
Evaluate ==
  /\ mpc = "input"
  /\ mOut' = matchesExpectation(mStatus, mExpect)
  /\ mNotOut' = matchesExpectation(mStatus, Not(mExpect))
  /\ mpc' = "done"
  /\ UNCHANGED <<mStatus, mExpect>>
  /\ UNCHANGED handlerVars

NextMatch == Evaluate

SpecMatch == InitMatch /\ [][NextMatch]_vars

(***************************************************************************)
(* Vocabulary of the properties.                                           *)
(***************************************************************************)
\* the handler got past the auth guard
Launched == hpc \in {"mapLimit", "send"} \/ (hpc = "done" /\ response.status # 401)

\* the handler returned a response that reports results
Reported == hpc = "done" /\ response.status # 401

\* an array without holes as a sequence
AsSeq(a) == [k \in 1..ArrayLength(a) |-> a[k - 1]]

RECURSIVE InFlightFrom(_)
InFlightFrom(k) ==
  IF k > Len(calls) THEN 0
  ELSE (calls[k].started - calls[k].returned) + InFlightFrom(k + 1)

\* checkWithRetries invocations started and not yet returned
InFlight == InFlightFrom(1)

\* workers inside a checkWithRetries invocation
BusyWorkers == {w \in DOMAIN workers : workers[w].pc \in {"fetch", "sleep"}}

\* position of the first succeeded attempt, 0 if none succeeded
FirstOk(attempts) ==
  IF \E k \in 1..Len(attempts) : attempts[k].ok
  THEN CHOOSE k \in 1..Len(attempts) :
         attempts[k].ok /\ \A j \in 1..(k - 1) : ~attempts[j].ok
  ELSE 0

\* the delay the backoff rule gives after the j-th failed attempt
ExpectedDelay(j) ==
  IF j = 1 THEN 250 ELSE IF j = 2 THEN 500 ELSE IF j = 3 THEN 1000 ELSE 2000

(***************************************************************************)
(* C1: mapLimit returns one result per monitor, and the result at position *)
(* k is the result of checking the monitor at position k, whatever the     *)
(* order in which the checks complete.                                     *)
(***************************************************************************)
C1_ResultsInInputOrder ==
  /\ \A k \in DOMAIN ret :
       /\ k \in 0..(Len(MONITORS) - 1)
       /\ ret[k] = summarizeAttempts(MONITORS[k + 1], ret[k].attemptDetails)
       /\ ret[k].url = MONITORS[k + 1].url
  /\ (Launched /\ hpc # "mapLimit") => DOMAIN ret = 0..(Len(MONITORS) - 1)
  /\ Reported => /\ response.body.results = ret
                 /\ response.body.totals.checked = Len(MONITORS)

\* the check of the second monitor completed and was stored before the first
C1_Witness == 1 \in DOMAIN ret /\ 0 \notin DOMAIN ret

(***************************************************************************)
(* C2: at most `limit` checkWithRetries invocations are in flight at any   *)
(* time; mapLimit launches min(limit, number of monitors) workers and each *)
(* worker has at most one monitor in flight.                               *)
(***************************************************************************)
C2_BoundedInFlight ==
  /\ InFlight <= limit
  /\ Launched => Len(workers) = (IF limit < Len(MONITORS) THEN limit ELSE Len(MONITORS))
  /\ InFlight = Cardinality(BusyWorkers)
  /\ \A k \in 1..Len(calls) : calls[k].started - calls[k].returned \in {0, 1}
  /\ \A v, w \in BusyWorkers : workers[v].idx = workers[w].idx => v = w

\* the limit is reached while a monitor is still unclaimed
C2_Witness == InFlight = limit /\ i < Len(MONITORS)

(***************************************************************************)
(* C3 as stated: N - 1 failed attempts followed by a success give exactly  *)
(* N attempts and ok = true; all attempts failing gives exactly            *)
(* retries + 1 attempts and ok = false.                                    *)
(***************************************************************************)
C3_AttemptCountAsStated ==
  \A k \in DOMAIN ret :
    LET r == ret[k]
        n == FirstOk(r.attemptDetails)
    IN  /\ r.attempts = Len(r.attemptDetails)
        /\ n > 0 => r.ok /\ r.attempts = n
        /\ n = 0 => ~r.ok /\ r.attempts = retriesOf(MONITORS[k + 1]) + 1

(***************************************************************************)
(* C3 amended: N - 1 failed attempts followed by a success, with           *)
(* N <= max(1, retries + 1), give exactly N attempts and ok = true; all    *)
(* attempts failing gives exactly max(1, retries + 1) attempts and         *)
(* ok = false.                                                             *)
(***************************************************************************)
C3_AttemptCount ==
  \A k \in DOMAIN ret :
    LET r == ret[k]
        n == FirstOk(r.attemptDetails)
        allowed == IF retriesOf(MONITORS[k + 1]) + 1 > 1
                   THEN retriesOf(MONITORS[k + 1]) + 1 ELSE 1
    IN  /\ r.attempts = Len(r.attemptDetails)
        /\ n > 0 => r.ok /\ r.attempts = n /\ n <= allowed
        /\ n = 0 => ~r.ok /\ r.attempts = allowed

\* two failures, then the third and last allowed attempt succeeds
C3_Witness ==
  /\ 0 \in DOMAIN ret
  /\ retriesOf(MONITORS[1]) = 2
  /\ ret[0].ok
  /\ ret[0].attempts = 3

(***************************************************************************)
(* C4: the delay slept after the j-th failed attempt of a monitor is       *)
(* min(2000, 250 * 2^(j-1)) ms -- 250, 500, 1000, 2000, 2000, ... --, a    *)
(* sleep follows a failed attempt only, and none follows the last allowed  *)
(* attempt or a success.                                                   *)
(***************************************************************************)
C4_BackoffSchedule ==
  /\ \A k \in 1..Len(sleeps) :
       /\ \A j \in 1..Len(sleeps[k]) : sleeps[k][j] = ExpectedDelay(j)
       /\ Len(sleeps[k]) >= 4 => SubSeq(sleeps[k], 1, 4) = <<250, 500, 1000, 2000>>
  /\ \A w \in DOMAIN workers :
       LET wk == workers[w]
           slept == Len(sleeps[wk.idx + 1])
       IN  /\ wk.pc = "fetch" => slept = Len(wk.attempts)
           /\ wk.pc = "sleep" => /\ slept = Len(wk.attempts)
                                 /\ ~wk.attempts[Len(wk.attempts)].ok
                                 /\ Len(wk.attempts) <= retriesOf(monitorOf(w))
           /\ wk.pc = "returned" => slept = Len(wk.attempts) - 1
  /\ \A k \in DOMAIN ret :
       /\ Len(sleeps[k + 1]) = ret[k].attempts - 1
       /\ \A j \in 1..Len(sleeps[k + 1]) : ~ret[k].attemptDetails[j].ok

\* five failures and a sixth attempt: the cap is reached and kept
C4_Witness ==
  /\ 0 \in DOMAIN ret
  /\ ret[0].attempts = 6
  /\ sleeps[1] = <<250, 500, 1000, 2000, 2000>>

(***************************************************************************)
(* C5: within one checkOnce a HEAD request answered 405 or 501 is followed *)
(* by exactly one GET request to the same address and the attempt reflects *)
(* that last request only; any other first answer, and any GET probe,      *)
(* issues no second request; there are never more than two requests.       *)
(***************************************************************************)
C5_FallbackOnce ==
  \A w \in DOMAIN workers :
    LET wk == workers[w]
        first == wk.reqs[1]
        fallback == first.method = "HEAD" /\ first.answer \in {Num(405), Num(501)}
    IN  wk.pc \in {"fetch", "sleep", "returned"} =>
          /\ Len(wk.reqs) \in {1, 2}
          /\ first.method = (IF monitorOf(w).method = "GET" THEN "GET" ELSE "HEAD")
          /\ \A k \in 1..Len(wk.reqs) : wk.reqs[k].url = monitorOf(w).url
          /\ Len(wk.reqs) = 2 => fallback /\ wk.reqs[2].method = "GET"
          /\ (fallback /\ wk.pc = "fetch") => Len(wk.reqs) = 2
          /\ wk.pc \in {"sleep", "returned"} =>
               /\ Len(wk.reqs) = (IF fallback THEN 2 ELSE 1)
               /\ wk.attempts[Len(wk.attempts)].status = wk.reqs[Len(wk.reqs)].answer

\* HEAD answered 405, the fallback GET answered 405 too: nothing further
C5_Witness ==
  \E w \in DOMAIN workers :
    /\ workers[w].pc = "returned"
    /\ Len(workers[w].reqs) = 2
    /\ workers[w].reqs[1].answer = Num(405)
    /\ workers[w].reqs[2].answer = Num(405)
    /\ workers[w].result.lastStatus = Num(405)

(***************************************************************************)
(* Vocabulary of the matcher properties.                                   *)
(***************************************************************************)
\* the matcher was given a numeric status code
NumericStatus == mStatus.t = "number"

\* a two-element array of numbers
IsNumPair(v) ==
  /\ v.t = "array"
  /\ Len(v.elems) = 2
  /\ v.elems[1].t = "number"
  /\ v.elems[2].t = "number"

\* lo <= code <= hi for the pair [lo, hi]
Inside(code, pair) == pair.elems[1].n <= code /\ code <= pair.elems[2].n

\* a rule holding nothing but a well-formed single range
IsSingleRange(v) ==
  /\ v.t = "object"
  /\ v.not = Undefined /\ v.anyOf = Undefined /\ v.oneOfRanges = Undefined
  /\ IsNumPair(v.between)

\* a rule holding nothing but a set of well-formed ranges
IsRangeSet(v) ==
  /\ v.t = "object"
  /\ v.not = Undefined /\ v.anyOf = Undefined /\ v.between = Undefined
  /\ v.oneOfRanges.t = "array"
  /\ \A k \in 1..Len(v.oneOfRanges.elems) : IsNumPair(v.oneOfRanges.elems[k])

\* the rule has one of the recognized shapes: no rule or the default
\* sentinel, a negation, a fixed set, a single range, a range set
Recognized(v) ==
  \/ v.t \in {"undefined", "null"}
  \/ v = Str("2xx3xx")
  \/ /\ v.t = "object"
     /\ \/ v.not # Undefined
        \/ v.anyOf.t = "array"
        \/ v.between.t = "array" /\ Len(v.between.elems) = 2
        \/ v.oneOfRanges.t = "array"

(***************************************************************************)
(* C6: for every numeric status code x and every rule R, malformed and     *)
(* empty ones included, matches(x, { not: R }) = ~matches(x, R).           *)
(***************************************************************************)
C6_NegationLaw == (mpc = "done" /\ NumericStatus) => (mNotOut = ~mOut)

(***************************************************************************)
(* C7: for every rule R, negations and double negations included,          *)
(* matches(absent, R) is false.                                            *)
(***************************************************************************)
C7_AbsentNeverMatches ==
  (mpc = "done" /\ ~NumericStatus) => (~mOut /\ ~mNotOut)

\* no status code against a double negation
C7_Witness ==
  /\ mpc = "done"
  /\ mStatus = Null
  /\ mExpect = Not(Not(AnyOf(<<200>>)))
  /\ ~mOut

(***************************************************************************)
(* C8: the default rule (the sentinel or no rule) accepts every code in    *)
(* 200..399 and rejects every code in 400..599 and an absent code; a       *)
(* single range and each range of a range set accept exactly the codes     *)
(* with min <= code <= max.                                                *)
(***************************************************************************)
C8_DefaultAndRanges ==
  mpc = "done" =>
    /\ mExpect \in {Str("2xx3xx"), Undefined} =>
         /\ (NumericStatus /\ mStatus.n \in 200..399) => mOut
         /\ (NumericStatus /\ mStatus.n \in 400..599) => ~mOut
         /\ ~NumericStatus => ~mOut
    /\ (NumericStatus /\ IsSingleRange(mExpect)) =>
         (mOut <=> Inside(mStatus.n, mExpect.between))
    /\ (NumericStatus /\ IsRangeSet(mExpect)) =>
         (mOut <=> \E k \in 1..Len(mExpect.oneOfRanges.elems) :
                     Inside(mStatus.n, mExpect.oneOfRanges.elems[k]))

\* the upper end of a single range is accepted
C8_Witness ==
  /\ mpc = "done"
  /\ mExpect = Between(200, 399)
  /\ mStatus = Num(399)
  /\ mOut

(***************************************************************************)
(* C9: a rule whose shape is none of the recognized forms evaluates to     *)
(* false for every status code.                                            *)
(***************************************************************************)
C9_MalformedNeverMatches == (mpc = "done" /\ ~Recognized(mExpect)) => ~mOut

(***************************************************************************)
(* C10: in every response that reports results, down is the subsequence of *)
(* the results with ok = false in their order, totals.checked is the       *)
(* number of results, totals.down the number of down results, totals.up    *)
(* their difference, and ok holds iff nothing is down.  Two monitors, the  *)
(* first answering 200 and the second 500, limit 2 and no retries, give    *)
(* totals 2/1/1 and the second result as the only down one; no monitors    *)
(* give totals 0/0/0, ok = true and empty sequences.                       *)
(***************************************************************************)
C10_ReportTotals ==
  Reported =>
    LET b == response.body
        all == AsSeq(b.results)
    IN  /\ Len(all) = Len(MONITORS)
        /\ b.down = SelectSeq(all, LAMBDA r : ~r.ok)
        /\ b.totals.checked = Len(all)
        /\ b.totals.down = Len(b.down)
        /\ b.totals.up = b.totals.checked - b.totals.down
        /\ b.totals.up + b.totals.down = b.totals.checked
        /\ b.ok <=> (b.totals.down = 0)
        /\ (/\ Len(MONITORS) = 2
            /\ limit = 2
            /\ \A k \in 1..2 : /\ retriesOf(MONITORS[k]) = 0
                               /\ MONITORS[k].expect = Str("2xx3xx")
            /\ all[1].lastStatus = Num(200)
            /\ all[2].lastStatus = Num(500))
           => /\ b.totals = [checked |-> 2, down |-> 1, up |-> 1]
              /\ b.down = <<all[2]>>
              /\ ~b.ok
        /\ Len(MONITORS) = 0
           => /\ b.totals = [checked |-> 0, down |-> 0, up |-> 0]
              /\ b.ok
              /\ b.results = << >>
              /\ b.down = << >>

\* the scenario: the first monitor up, the second down, the alert sent
C10_Witness ==
  /\ Reported
  /\ response.status = 200
  /\ Len(MONITORS) = 2
  /\ limit = 2
  /\ \A k \in 1..2 : retriesOf(MONITORS[k]) = 0
  /\ response.body.results[0].lastStatus = Num(200)
  /\ response.body.results[1].lastStatus = Num(500)
  /\ response.body.emailSent

(***************************************************************************)
(* C11: when MONITOR_TOKEN is set and the authorization header is missing  *)
(* or is not exactly "Bearer <secret>", the handler answers 401 and the    *)
(* invocation performs no probe, no backoff sleep and no alert dispatch;   *)
(* when no secret is set, no request is ever answered 401 and the engine   *)
(* runs whatever the header is.                                            *)
(***************************************************************************)
C11_AuthGuard ==
  LET configured == token # ""
      exact == auth = "Bearer " \o token
  IN  /\ (configured /\ ~exact)
         => /\ hpc \in {"start", "done"}
            /\ hpc = "done"
               => response = [status |-> 401,
                              body |-> [error |-> "Unauthorized"]]
            /\ workers = << >>
            /\ \A k \in DOMAIN calls : calls[k].started = 0
            /\ \A k \in DOMAIN sleeps : sleeps[k] = << >>
            /\ sent = 0
            /\ alert = "none"
            /\ ret = << >>
      /\ ~configured
         => /\ hpc = "done" => response.status # 401
            /\ hpc # "start" => /\ Launched
                                /\ \A k \in DOMAIN calls :
                                     k <= limit => calls[k].started = 1

\* a header without the Bearer prefix is answered 401, and so is a wrong
\* secret
C11_Witness ==
  /\ token = "s3cret"
  /\ auth = "s3cret"
  /\ Len(MONITORS) = 1
  /\ hpc = "done"
  /\ response.status = 401

\* with no secret set, a request with a foreign header is served
C11_WitnessOpen ==
  /\ token = ""
  /\ auth = "Bearer other"
  /\ Len(MONITORS) = 1
  /\ Reported
  /\ calls[1].returned = 1

(***************************************************************************)
(* C12: in one invocation resend.emails.send is called at most once, only  *)
(* after checkWithRetries has returned and stored a result for every       *)
(* monitor, and only when some result is down; when every monitor is up    *)
(* nothing is sent and the response reports emailSent = false.             *)
(***************************************************************************)
C12_AlertAtMostOnce ==
  /\ sent <= 1
  /\ (sent = 1) <=> (alert \in {"sending", "sent", "failed"})
  /\ sent = 1
     => /\ \A k \in 1..Len(MONITORS) :
             /\ calls[k].started = 1
             /\ calls[k].returned = 1
             /\ (k - 1) \in DOMAIN ret
        /\ \A w \in DOMAIN workers : workers[w].pc = "done"
        /\ \E k \in DOMAIN ret : ~ret[k].ok
  /\ (Reported /\ \A k \in DOMAIN ret : ret[k].ok)
     => /\ sent = 0
        /\ alert = "none"
        /\ response.status = 200
        /\ response.body.emailSent = FALSE

\* the send is in flight for two monitors, the first up and the second down
C12_Witness ==
  /\ hpc = "send"
  /\ sent = 1
  /\ Len(MONITORS) = 2
  /\ ret[0].ok
  /\ ~ret[1].ok

\* two monitors, both up: the report without a send
C12_WitnessAllUp ==
  /\ Reported
  /\ Len(MONITORS) = 2
  /\ ret[0].ok /\ ret[1].ok
  /\ sent = 0
  /\ response.body.emailSent = FALSE

(***************************************************************************)
(* Vocabulary of the properties of attempts and results.                   *)
(***************************************************************************)
\* the results checkWithRetries has returned so far: those of the workers
\* that hold one and those stored in ret
Returned ==
  {<<workers[w].idx, workers[w].result>> :
     w \in {v \in DOMAIN workers : workers[v].pc = "returned"}}
  \cup {<<k, ret[k]>> : k \in DOMAIN ret}

\* the attempts made so far, in results and in the invocations under way
AllAttempts ==
  UNION {{workers[w].attempts[j] : j \in 1..Len(workers[w].attempts)} :
           w \in DOMAIN workers}
  \cup UNION {{ret[k].attemptDetails[j] : j \in 1..Len(ret[k].attemptDetails)} :
                k \in DOMAIN ret}

\* the result ends with a succeeded attempt, the only one that succeeded
Succeeded(r) ==
  /\ r.ok
  /\ r.attemptDetails[Len(r.attemptDetails)].ok
  /\ \A j \in 1..(Len(r.attemptDetails) - 1) : ~r.attemptDetails[j].ok

\* every attempt the monitor is allowed was made and failed
Exhausted(r, m) ==
  /\ ~r.ok
  /\ \A j \in 1..Len(r.attemptDetails) : ~r.attemptDetails[j].ok
  /\ Len(r.attemptDetails) = Max(1, retriesOf(m) + 1)

(***************************************************************************)
(* C13: every result checkWithRetries returns is either "succeeded" (its   *)
(* last attempt succeeded) or "exhausted" (all allowed attempts failed),   *)
(* never both and never neither; a fetch that is aborted or fails in       *)
(* transport, and a response the rule rejects, become failed attempts of   *)
(* the invocation: no worker ever throws and mapLimit never rejects.       *)
(***************************************************************************)
C13_FailuresAreAttempts ==
  /\ hpc # "rejected"
  /\ \A w \in DOMAIN workers :
       LET wk == workers[w]
           last == wk.reqs[Len(wk.reqs)]
           att == wk.attempts[Len(wk.attempts)]
       IN  /\ wk.pc \in {"fetch", "sleep", "returned", "done"}
           /\ wk.pc \in {"sleep", "returned"}
              => /\ Len(wk.attempts) = wk.i
                 /\ last.failure # "" => ~att.ok /\ att.error # Null
                 /\ (/\ last.failure = ""
                     /\ ~matchesExpectation(last.answer, monitorOf(w).expect))
                    => ~att.ok /\ att.status = last.answer
           /\ wk.pc = "sleep" => ~att.ok
  /\ \A p \in Returned :
       LET r == p[2]
           m == MONITORS[p[1] + 1]
       IN  /\ r.attempts = Len(r.attemptDetails)
           /\ r.attempts >= 1
           /\ Succeeded(r) \/ Exhausted(r, m)
           /\ ~(Succeeded(r) /\ Exhausted(r, m))

\* a monitor with one retry: the first fetch is aborted by the timer, the
\* second fails in transport, and the invocation returns its result
C13_Witness ==
  \E w \in DOMAIN workers :
    /\ workers[w].pc = "returned"
    /\ Len(workers[w].attempts) = 2
    /\ workers[w].attempts[1].error = Str("timeout")
    /\ workers[w].attempts[2].error = Str("fetch failed")
    /\ Exhausted(workers[w].result, monitorOf(w))

(***************************************************************************)
(* Vocabulary of the scheduling properties.                                *)
(***************************************************************************)
\* the worker's target has failed an attempt and is being retried: the
\* worker is in a backoff sleep or in a later attempt
Retrying(w) ==
  workers[w].pc = "sleep" \/ (workers[w].pc = "fetch" /\ workers[w].i > 1)

\* the monitors no worker has claimed yet
Unclaimed == {k \in 1..Len(MONITORS) : calls[k].started = 0}

(***************************************************************************)
(* C14 as stated: a failing target neither aborts the others nor delays    *)
(* them; in particular no target is left waiting for its start while a     *)
(* failing target is retried.                                              *)
(***************************************************************************)
C14_NeverDelayedAsStated ==
  /\ hpc # "rejected"
  /\ (Launched /\ hpc # "mapLimit")
     => \A k \in 1..Len(MONITORS) :
          calls[k].returned = 1 /\ (k - 1) \in DOMAIN ret
  /\ hpc = "mapLimit"
     => \A w \in DOMAIN workers : Retrying(w) => Unclaimed = {}

(***************************************************************************)
(* C14: a failing target never aborts the others: whatever a target's      *)
(* attempts and sleeps, every other target is claimed, checked and given   *)
(* its own result.  A worker never waits for another worker, and the first *)
(* min(limit, n) targets start at once.  A target beyond them starts as    *)
(* soon as a worker is free: it waits only while every worker is busy,     *)
(* which the retries of a failing target can prolong.                      *)
(***************************************************************************)
C14_FailureIsolated ==
  /\ hpc # "rejected"
  /\ (Launched /\ hpc # "mapLimit")
     => \A k \in 1..Len(MONITORS) :
          /\ calls[k].started = 1
          /\ calls[k].returned = 1
          /\ (k - 1) \in DOMAIN ret
          /\ ret[k - 1].url = MONITORS[k].url
          /\ Succeeded(ret[k - 1]) \/ Exhausted(ret[k - 1], MONITORS[k])
  /\ Launched
     => \A k \in 1..Len(MONITORS) : k <= limit => calls[k].started = 1
  /\ hpc = "mapLimit"
     => /\ Len(workers) = Min(limit, Len(MONITORS))
        /\ Unclaimed # {}
           => \A w \in DOMAIN workers :
                workers[w].pc \in {"fetch", "sleep", "returned"}
        /\ \A w \in DOMAIN workers :
             /\ workers[w].pc = "fetch" => ENABLED FetchRejected(w)
             /\ workers[w].pc = "sleep" => ENABLED SleepDone(w)
             /\ workers[w].pc = "returned" => ENABLED WorkerStore(w)

\* one worker, two monitors: the first exhausts its two attempts, and the
\* second is still checked and reported up
C14_Witness ==
  /\ Reported
  /\ limit = 1
  /\ Len(MONITORS) = 2
  /\ Exhausted(ret[0], MONITORS[1])
  /\ ret[0].attempts = 2
  /\ Len(sleeps[1]) = 1
  /\ Succeeded(ret[1])

(***************************************************************************)
(* C15: under every interleaving each index of MONITORS is claimed by      *)
(* exactly one worker: none twice, and none skipped (the indices claimed   *)
(* are 0 .. i-1 and in the end all of them); checkWithRetries runs once    *)
(* per monitor; each slot of ret is written once, by the worker that       *)
(* claimed its index.                                                      *)
(***************************************************************************)
C15_ClaimedExactlyOnce ==
  /\ \A k \in DOMAIN calls :
       LET c == calls[k]
       IN  /\ c.started <= 1
           /\ c.returned <= c.started
           /\ c.stored <= c.returned
           /\ (c.started = 1) <=> (Launched /\ k <= i)
           /\ (c.started = 1) <=> (c.claimedBy \in DOMAIN workers)
           /\ (c.stored = 1) <=> ((k - 1) \in DOMAIN ret)
           /\ c.stored = 1 => c.storedBy = c.claimedBy
           /\ c.stored = 0 => c.storedBy = 0
           /\ (c.started = 1 /\ c.stored = 0)
              => /\ hpc = "mapLimit"
                 /\ workers[c.claimedBy].idx = k - 1
                 /\ workers[c.claimedBy].pc \in {"fetch", "sleep", "returned"}
  /\ \A v, w \in DOMAIN workers :
       (/\ v # w
        /\ workers[v].pc # "done"
        /\ workers[w].pc # "done") => workers[v].idx # workers[w].idx
  /\ (Launched /\ hpc # "mapLimit")
     => \A k \in 1..Len(MONITORS) :
          calls[k].started = 1 /\ calls[k].returned = 1 /\ calls[k].stored = 1

\* the last monitor beyond the workers is claimed by the second worker,
\* which returned before the first
C15_Witness ==
  /\ Reported
  /\ Len(workers) < Len(MONITORS)
  /\ Len(workers) >= 2
  /\ calls[Len(MONITORS)].claimedBy = 2
  /\ calls[Len(MONITORS)].storedBy = 2
  /\ calls[1].stored = 1 /\ calls[1].storedBy = 1

\* in another interleaving the same monitor is claimed by the first worker
C15_WitnessOtherOrder ==
  /\ Reported
  /\ Len(workers) < Len(MONITORS)
  /\ Len(workers) >= 2
  /\ calls[Len(MONITORS)].claimedBy = 1
  /\ calls[Len(MONITORS)].storedBy = 1

(***************************************************************************)
(* C16: once an attempt of a target has succeeded, checkWithRetries has    *)
(* returned: the succeeded attempt is the last one, no request is in       *)
(* flight or issued after it and no sleep follows it, also when further    *)
(* attempts were allowed.                                                  *)
(***************************************************************************)
C16_StopAfterSuccess ==
  /\ \A w \in DOMAIN workers :
       LET wk == workers[w]
           n == Len(wk.attempts)
       IN  (\E j \in 1..n : wk.attempts[j].ok)
           => /\ wk.pc = "returned"
              /\ FirstOk(wk.attempts) = n
              /\ wk.i = n
              /\ wk.reqs[Len(wk.reqs)].answer # Undefined
              /\ Len(sleeps[wk.idx + 1]) = n - 1
              /\ wk.result.ok /\ wk.result.attempts = n
  /\ \A k \in DOMAIN ret :
       ret[k].ok
       => /\ FirstOk(ret[k].attemptDetails) = ret[k].attempts
          /\ Len(sleeps[k + 1]) = ret[k].attempts - 1
          /\ calls[k + 1].started = 1

\* the second attempt succeeds while more attempts were allowed: one sleep,
\* two attempts, and the result is stored
C16_Witness ==
  /\ Len(MONITORS) = 1
  /\ retriesOf(MONITORS[1]) = MaxRetries
  /\ 0 \in DOMAIN ret
  /\ ret[0].ok
  /\ ret[0].attempts = 2
  /\ sleeps[1] = <<250>>
  /\ hpc = "done"

(***************************************************************************)
(* Vocabulary of the timing properties.  Times are milliseconds since      *)
(* checkOnce armed its timer.                                              *)
(***************************************************************************)
\* the workers inside checkWithRetries, which hold the requests of their
\* latest checkOnce
Checking == {w \in DOMAIN workers : workers[w].pc \in {"fetch", "sleep", "returned"}}

\* the request was cancelled by the timer
Aborted(rq) == rq.failure = "AbortError"

(***************************************************************************)
(* C17 as stated: the fallback GET has a full timeout of its own: when it  *)
(* is cancelled, timeoutMs have passed since it was issued.                *)
(***************************************************************************)
C17_FreshTimeoutAsStated ==
  \A w \in Checking :
    LET reqs == workers[w].reqs
    IN  (Len(reqs) = 2 /\ Aborted(reqs[2]))
        => reqs[2].ended[1] - reqs[2].at >= timeoutOf(monitorOf(w))

(***************************************************************************)
(* C17: checkOnce arms one timer, before the HEAD request, and the         *)
(* fallback GET runs under the same timer: the GET is issued the moment    *)
(* the HEAD is answered and is cancelled timeoutMs after the HEAD request  *)
(* was issued, so it gets what the HEAD left of the budget, a full         *)
(* timeoutMs only when the HEAD was answered at once.  The two requests    *)
(* together never take longer than timeoutMs.                              *)
(***************************************************************************)
C17_SharedTimeout ==
  \A w \in Checking :
    LET reqs == workers[w].reqs
        timeoutMs == timeoutOf(monitorOf(w))
    IN  /\ reqs[1].at = 0
        /\ Len(reqs) = 2 => reqs[2].at = reqs[1].ended[1]
        /\ \A k \in 1..Len(reqs) :
             LET rq == reqs[k]
             IN  /\ Aborted(rq)
                    => /\ rq.ended[1] = timeoutMs
                       /\ rq.ended[1] - rq.at = (IF k = 1 THEN timeoutMs
                                               ELSE timeoutMs - reqs[1].ended[1])
                 /\ (rq.answer # Undefined /\ rq.failure = "")
                    => rq.at <= rq.ended[1] /\ rq.ended[1] < timeoutMs
                 /\ (rq.failure # "" /\ ~Aborted(rq))
                    => rq.at <= rq.ended[1] /\ rq.ended[1] <= timeoutMs

\* the HEAD request is answered 405 after 5000 ms of the default 8000; the
\* fallback GET is cancelled 3000 ms after it was issued
C17_Witness ==
  \E w \in Checking :
    LET reqs == workers[w].reqs
    IN  /\ timeoutOf(monitorOf(w)) = DEFAULT_TIMEOUT_MS
        /\ Len(reqs) = 2
        /\ reqs[1].answer = Num(405)
        /\ reqs[2].at = 5000
        /\ Aborted(reqs[2])
        /\ reqs[2].ended[1] - reqs[2].at = 3000
        /\ workers[w].attempts[Len(workers[w].attempts)].error = Str("timeout")

(***************************************************************************)
(* C18: in every attempt the status is absent exactly when an error is     *)
(* present, and a succeeded attempt has a status and no error.  A response *)
(* the rule rejects gives an attempt with the response's status and        *)
(* ok = false; a request cancelled by the timer, the fallback GET          *)
(* included, gives error = "timeout", no status, ok = false.               *)
(***************************************************************************)
C18_AttemptShape ==
  /\ \A a \in AllAttempts :
       /\ (a.status = Null) <=> (a.error # Null)
       /\ a.ok => a.status # Null /\ a.error = Null
       /\ a.status # Null => a.status.t = "number"
       /\ a.error # Null => a.error.t = "string" /\ a.error.s # ""
  /\ \A w \in Checking :
       LET wk == workers[w]
           last == wk.reqs[Len(wk.reqs)]
           att == wk.attempts[Len(wk.attempts)]
       IN  wk.pc \in {"sleep", "returned"}
           => /\ (/\ last.failure = ""
                  /\ ~matchesExpectation(last.answer, monitorOf(w).expect))
                 => att = [ok |-> FALSE, status |-> last.answer, error |-> Null]
              /\ (/\ last.failure = ""
                  /\ matchesExpectation(last.answer, monitorOf(w).expect))
                 => att = [ok |-> TRUE, status |-> last.answer, error |-> Null]
              /\ Aborted(last)
                 => att = [ok |-> FALSE, status |-> Null, error |-> Str("timeout")]
              /\ (last.failure # "" /\ ~Aborted(last))
                 => att = [ok |-> FALSE, status |-> Null,
                           error |-> Str(last.failure)]

\* HEAD answered 501, the fallback GET cancelled by the timer: the attempt
\* carries "timeout" and nothing of the 501
C18_Witness ==
  \E w \in Checking :
    /\ workers[w].pc = "returned"
    /\ Len(workers[w].reqs) = 2
    /\ workers[w].reqs[1].answer = Num(501)
    /\ Aborted(workers[w].reqs[2])
    /\ workers[w].result.lastError = Str("timeout")
    /\ workers[w].result.lastStatus = Null
    /\ ~workers[w].result.ok

\* a 200 that the rule rejects is recorded with its status
C18_WitnessRejected ==
  \E w \in Checking :
    /\ workers[w].pc = "returned"
    /\ workers[w].result.lastStatus = Num(200)
    /\ workers[w].result.lastError = Null
    /\ ~workers[w].result.ok

(***************************************************************************)
(* Vocabulary of the precedence property: which forms a rule node carries. *)
(***************************************************************************)
\* the node's `not` key holds a rule (a non-empty value)
HasNegation(v) == v.not \notin {Undefined, Null, Str(""), Num(0), Bool(FALSE)}

\* the node's `anyOf` key holds a list
HasFixedSet(v) == v.anyOf.t = "array"

\* the node's `between` key holds a pair
HasRange(v) == v.between.t = "array" /\ Len(v.between.elems) = 2

\* the node's `oneOfRanges` key holds a list
HasRangeSet(v) == v.oneOfRanges.t = "array"

\* the node carries more than one of the four keys
SeveralKeys(v) ==
  Cardinality({k \in {"not", "anyOf", "between", "oneOfRanges"} :
                 Prop(v, k) # Undefined}) > 1

(***************************************************************************)
(* C19: for a numeric status and a rule node, the forms are tried in the   *)
(* order negation, fixed set, single range, range set, and the first form  *)
(* the node carries decides alone, whatever the later keys say: a node     *)
(* with anyOf [404] and between [200, 299] accepts 404 and rejects 200.    *)
(***************************************************************************)
C19_FirstFormDecides ==
  (mpc = "done" /\ NumericStatus /\ mExpect.t = "object")
  => LET v == mExpect
         x == mStatus.n
     IN  /\ IF HasNegation(v)
            THEN mOut = ~matchesExpectation(mStatus, v.not)
            ELSE IF HasFixedSet(v)
            THEN mOut = (\E k \in 1..Len(v.anyOf.elems) : v.anyOf.elems[k] = Num(x))
            ELSE IF HasRange(v)
            THEN mOut = (IsNumPair(v.between) /\ Inside(x, v.between))
            ELSE IF HasRangeSet(v)
            THEN mOut = (\E k \in 1..Len(v.oneOfRanges.elems) :
                           /\ IsNumPair(v.oneOfRanges.elems[k])
                           /\ Inside(x, v.oneOfRanges.elems[k]))
            ELSE mOut = FALSE
         /\ v = Obj(NoKey, Codes(<<404>>), Pair(200, 299), NoKey)
            => mOut = (x = 404)
         /\ v = Obj(NoKey, NoKey, Pair(500, 599), Arr(<<Pair(200, 299)>>))
            => mOut = (500 <= x /\ x <= 599)
         /\ v = Obj(AnyOf(<<500>>), Codes(<<500>>), NoKey, NoKey)
            => mOut = (x # 500)
         /\ v = Obj(AnyOf(<<200>>), Codes(<<200>>), Pair(200, 299),
                    Arr(<<Pair(200, 299)>>))
            => mOut = (x # 200)
         /\ v = Obj(NoKey, Codes(<<500>>), NoKey, Arr(<<Pair(200, 299)>>))
            => mOut = (x = 500)

\* status 200 against anyOf [404] with between [200, 299]: inside the range
\* and rejected
C19_Witness ==
  /\ mpc = "done"
  /\ mStatus = Num(200)
  /\ mExpect = Obj(NoKey, Codes(<<404>>), Pair(200, 299), NoKey)
  /\ SeveralKeys(mExpect)
  /\ ~mOut

C20_WitnessEnvMissing ==
  /\ Reported
  /\ alert = "env-missing"
  /\ sent = 0
  /\ response.status = 500
  /\ Len(MONITORS) = 2
  /\ Len(response.body.down) = 1

(***************************************************************************)
(* C21: every result checkWithRetries returns has at least one attempt and *)
(* at most max(1, retries + 1), and `attempts` is their number; at most    *)
(* one attempt succeeded and, if one did, it is the last; so ok, which is  *)
(* "some attempt succeeded", equals the last attempt's ok, and lastStatus  *)
(* and lastError are the last attempt's status and error.                  *)
(***************************************************************************)
C21_AttemptSequence ==
  \A p \in Returned :
    LET r == p[2]
        atts == r.attemptDetails
        n == Len(atts)
        retries == retriesOf(MONITORS[p[1] + 1])
        oks == {j \in 1..n : atts[j].ok}
    IN  /\ n >= 1
        /\ r.attempts = n
        /\ n <= (IF retries + 1 > 1 THEN retries + 1 ELSE 1)
        /\ Cardinality(oks) <= 1
        /\ oks \subseteq {n}
        /\ r.ok <=> (oks # {})
        /\ r.ok <=> atts[n].ok
        /\ r.lastStatus = atts[n].status
        /\ r.lastError = atts[n].error

\* a 500, a timeout, then a 200 that the default rule accepts: three
\* attempts, and the summary reads the third
C21_Witness ==
  /\ 0 \in DOMAIN ret
  /\ retriesOf(MONITORS[1]) >= 3
  /\ ret[0].attempts = 3
  /\ ret[0].attemptDetails[1].status = Num(500)
  /\ ret[0].attemptDetails[2].error = Str("timeout")
  /\ ret[0].attemptDetails[3].ok
  /\ ret[0].ok
  /\ ret[0].lastStatus = Num(200)
  /\ ret[0].lastError = Null

(***************************************************************************)
(* Vocabulary of the termination property.                                 *)
(***************************************************************************)
\* mapLimit's promise can resolve: every worker found the cursor past the
\* end and stopped, every monitor was claimed once and has its slot of ret
\* filled, with no more attempts than max(1, retries + 1)
RunAllFinished ==
  /\ hpc \in {"mapLimit", "send", "done"}
  /\ i = Len(MONITORS)
  /\ \A w \in DOMAIN workers : workers[w].pc = "done"
  /\ \A k \in 1..Len(MONITORS) :
       /\ calls[k].started = 1
       /\ calls[k].stored = 1
       /\ (k - 1) \in DOMAIN ret
       /\ ret[k - 1].url = MONITORS[k].url
       /\ ret[k - 1].attempts >= 1
       /\ ret[k - 1].attempts <= Max(1, retriesOf(MONITORS[k]) + 1)

(***************************************************************************)
(* C22: if every request is answered or cancelled at its timeout and every *)
(* backoff sleep ends, mapLimit, once called, terminates: eventually every *)
(* worker has stopped with the cursor past the end, every monitor has been *)
(* claimed and its slot filled, and no monitor was probed more than        *)
(* max(1, retries + 1) times.                                              *)
(***************************************************************************)
C22_RunAllTerminates == (hpc = "mapLimit") ~> RunAllFinished

\* two monitors on one worker, the first of them exhausting its two
\* attempts: the run still ends with both slots filled
C22_Witness ==
  /\ RunAllFinished
  /\ hpc = "mapLimit"
  /\ limit = 1
  /\ Len(MONITORS) = 2
  /\ ~ret[0].ok
  /\ ret[0].attempts = 2
  /\ Len(sleeps[1]) = 1

====
